---- MODULE Spec2Model ----
(***************************************************************************)
(* Verification gate of the movie bot: the token ledger                    *)
(* (verification_system.py, models.py), the delivery handlers of the three *)
(* entry programs (auto_filter_bot.py, main_auto_filter.py,                *)
(* bot_handlers.py) and the clock they read.                               *)
(* Beside it the two services of bot_handlers.py that pace its work: the   *)
(* upload queue (bulk_upload_handler.py) and the admission checks          *)
(* (database.py check_rate_limit).                                         *)
(*                                                                         *)
(* Handlers are coroutines on one event loop: the code between two awaits  *)
(* that reach the network runs without interruption, so each action below  *)
(* is one such segment and the tasks in flight sit at their awaits.        *)
(* The ledger counts time in hours, the upload queue in quarter seconds,   *)
(* the admission checks in seconds.                                        *)
(*                                                                         *)
(* The last part follows a delivery request through every await of its     *)
(* handler, with each call to the store, the link shortener and Telegram   *)
(* returning or raising, and the cleanup jobs armed by a delivery          *)
(* (job_queue.run_once, file_manager.py), on a clock in seconds; next to   *)
(* it URLShortener.shorten_url (url_shortener.py) as a function.           *)
(*                                                                         *)
(* In the same way handle_file_upload of bot_handlers.py is followed       *)
(* through its awaits, from the file message to the rows add_movie         *)
(* inserts, directly or through the upload queue and its drain.            *)
(***************************************************************************)
EXTENDS Integers, Sequences, FiniteSets, TLC

(* ---- bounds ---- *)
MaxTime == 36
TickHours == 12
MaxTokens == 2
MaxTasks == 1
MaxItems == 6
MaxCalls == 7
MaxSeconds == 80
TickSeconds == 20
MaxClock == 600
TickClock == 300
MaxLogs == 1
MaxJobs == 2
MaxFiles == 5

(* ---- program constants ---- *)
HoursValid == 24
TokenTtlHours == 24
MAX_CONCURRENT_UPLOADS == 5
\* check_rate_limit: "5 per minute", "10 per hour"
SearchLimit == 5
SearchWindow == 60
UploadLimit == 10
UploadWindow == 3600
\* 0.5 seconds, counted in quarter seconds
BULK_UPLOAD_DELAY == 2
AUTO_DELETE_MINUTES == 10

Programs == {"afb", "maf", "bh"}
Subjects == {1, 2}
\* catalog: movie 1 has an active row, id 2 has none
ActiveMovies == {1}
MovieIds == {1, 2}
Tokens == 1..MaxTokens
NoTime == 0 - 1

VARIABLES
    prog,     \* which entry program is running
    now,      \* datetime.utcnow(), in hours
    users,    \* table users: subject -> row
    verifs,   \* table user_verifications: sequence of rows, in insertion order
    issued,   \* number of verification tokens generated so far
    tasks,    \* handlers suspended at an await (equal ones coincide)
    last,     \* the most recent outcome told to the sender of a redirect-followed event
    upload_queue,   \* BulkUploadHandler.upload_queue: the items, oldest first
    is_processing,  \* BulkUploadHandler.is_processing
    appended,       \* number of items appended so far; item k is the k-th appended
    replying,       \* number of add_to_upload_queue calls suspended at reply_text
    spawned,        \* _process_upload_queue tasks created and not yet run
    drains,         \* _process_upload_queue tasks inside their try block
    outcome,        \* item -> where its _process_single_upload stands, until its result is counted
    popped,         \* the items handed to _process_single_upload, in that order
    batches,        \* number of batches handed to asyncio.gather so far
    elapsed,        \* quarter seconds since the latest batch started, counted up to BULK_UPLOAD_DELAY
    summary,        \* the latest "Bulk upload completed" line of the log
    rate_limits,    \* table rate_limits: subject -> row
    rate_now,       \* datetime.now(), in seconds
    calls,          \* number of check_rate_limit calls so far
    admitted,       \* subject -> action -> the times of the calls that returned True
    answer,         \* subject -> action -> what the latest call returned
    clock,          \* the wall clock of the cleanup jobs, in seconds
    req,            \* the delivery request being handled, cut at its awaits
    shown,          \* what the requester has been shown for that request, in order
    download_logs,  \* table download_logs: rows in insertion order
    jobs,           \* every cleanup job and deletion task created so far
    shortener_call, \* URLShortener.shorten_url: the call and what the service does with it
    returned,       \* URLShortener.shorten_url: the value returned
    deactivated,    \* the movies whose is_active was set to False
    movies,         \* table movies of database.py: the rows add_movie inserted
    items,          \* what queue item k holds: its file message and its file name
    msg             \* the file message being handled, cut at its awaits

upload_vars ==
    <<upload_queue, is_processing, appended, replying, spawned, drains, outcome,
      popped, batches, elapsed, summary>>

rate_vars == <<rate_limits, rate_now, calls, admitted, answer>>

cleanup_vars == <<clock, req, shown, download_logs, jobs>>

short_vars == <<shortener_call, returned>>

catalog_vars == <<deactivated, movies, items, msg>>

vars ==
    <<prog, now, users, verifs, issued, tasks, last, upload_vars, rate_vars,
      cleanup_vars, short_vars, catalog_vars>>

NoUser == [exists |-> FALSE, last_verified |-> NoTime, verification_count |-> 0]
NoReply == [token |-> 0, result |-> "none"]
Reply(tok, res) == [token |-> tok, result |-> res]
Task(kind, u, m, tok, pc) ==
    [kind |-> kind, user |-> u, movie |-> m, token |-> tok, pc |-> pc]

Max(a, b) == IF a >= b THEN a ELSE b
Min(a, b) == IF a <= b THEN a ELSE b

NoSummary == [processed |-> 0, failed |-> 0]

Actions == {"search", "upload"}
\* no row of rate_limits for the subject; a DATETIME column that is NULL
NoRate == [exists |-> FALSE, last_search |-> NoTime, search_count |-> 0,
           last_upload |-> NoTime, upload_count |-> 0]
\* the locals of one _process_upload_queue call; `taken` is every item it popped
NewDrain ==
    [pc |-> "start", batch |-> <<>>, taken |-> {}, processed_count |-> 0,
     failed_count |-> 0, sleep_left |-> 0]
Items(batch) == {batch[i] : i \in 1..Len(batch)}

(* ---- models.py ---- *)

\* User.is_verified_today
is_verified_today_le(u) ==
    IF u.last_verified = NoTime THEN FALSE
    ELSE now - u.last_verified <= HoursValid
is_verified_today(u) ==
    IF u.last_verified = NoTime THEN FALSE
    ELSE now - u.last_verified < HoursValid

\* User.mark_verified
mark_verified(u) ==
    [u EXCEPT !.last_verified = now, !.verification_count = @ + 1]

\* UserVerification.is_valid
is_valid_no_clock(v) == ~v.is_expired
is_valid(v) == ~v.is_expired /\ now < v.expires_at

\* User(user_id=...) added to the session: the column defaults
NewUser == [exists |-> TRUE, last_verified |-> NoTime, verification_count |-> 0]

(* ---- verification_system.py ---- *)

\* check_user_verification_status
check_user_verification_status(uid) ==
    LET user == users[uid] IN
    IF ~user.exists
    THEN [needs_verification |-> TRUE, last_verified |-> NoTime, hours_remaining |-> 24]
    ELSE IF is_verified_today(user)
    THEN [needs_verification |-> FALSE, last_verified |-> user.last_verified,
          hours_remaining |-> Max(0, 24 - (now - user.last_verified))]
    ELSE [needs_verification |-> TRUE, last_verified |-> user.last_verified,
          hours_remaining |-> 24]

\* UserVerification.query.filter_by(verification_token=..., is_verified=False).first():
\* the index of the first matching row, 0 for None
FirstUnverified_any(tok) ==
    LET hits == {i \in 1..Len(verifs) : verifs[i].verification_token = tok} IN
    IF hits = {} THEN 0 ELSE CHOOSE i \in hits : \A j \in hits : i <= j
FirstUnverified(tok) ==
    LET hits == {i \in 1..Len(verifs) :
                    verifs[i].verification_token = tok /\ ~verifs[i].is_verified} IN
    IF hits = {} THEN 0 ELSE CHOOSE i \in hits : \A j \in hits : i <= j

\* the row create_verification_request saves
NewVerification(uid, mid, tok) ==
    [user_id |-> uid, movie_id |-> mid, verification_token |-> tok,
     expires_at |-> now + TokenTtlHours, verified_at |-> NoTime,
     is_verified |-> FALSE, is_expired |-> FALSE]

\* verify_user_by_token: the outcome, the ledger and the users table it leaves
verify_result(tok) ==
    LET i == FirstUnverified(tok) IN
    IF i = 0 THEN "invalid"
    ELSE IF ~is_valid(verifs[i]) THEN "expired"
    ELSE "success"

verify_verifs(tok) ==
    LET i == FirstUnverified(tok) IN
    IF i = 0 THEN verifs
    ELSE IF ~is_valid(verifs[i]) THEN [verifs EXCEPT ![i].is_expired = TRUE]
    ELSE [verifs EXCEPT ![i].is_verified = TRUE, ![i].verified_at = now]

verify_users_early(tok, us) ==
    LET i == FirstUnverified(tok) IN
    IF i = 0 THEN us
    ELSE LET uid == verifs[i].user_id
             user == IF us[uid].exists THEN us[uid] ELSE NewUser
         IN [us EXCEPT ![uid] = mark_verified(user)]
verify_users(tok, us) ==
    LET i == FirstUnverified(tok) IN
    IF i = 0 \/ ~is_valid(verifs[i]) THEN us
    ELSE LET uid == verifs[i].user_id
             user == IF us[uid].exists THEN us[uid] ELSE NewUser
         IN [us EXCEPT ![uid] = mark_verified(user)]

\* cleanup_expired_verifications
cleanup_verifs_all ==
    [i \in 1..Len(verifs) |->
        IF verifs[i].expires_at < now
        THEN [verifs[i] EXCEPT !.is_expired = TRUE]
        ELSE verifs[i]]
cleanup_verifs_le ==
    [i \in 1..Len(verifs) |->
        IF verifs[i].expires_at <= now /\ ~verifs[i].is_verified
        THEN [verifs[i] EXCEPT !.is_expired = TRUE]
        ELSE verifs[i]]
cleanup_verifs ==
    [i \in 1..Len(verifs) |->
        IF verifs[i].expires_at < now /\ ~verifs[i].is_verified
        THEN [verifs[i] EXCEPT !.is_expired = TRUE]
        ELSE verifs[i]]

(* ---- state after construction ---- *)

\* BulkUploadHandler.__init__
InitUploads ==
    /\ upload_queue = <<>>
    /\ is_processing = FALSE
    /\ appended = 0
    /\ replying = 0
    /\ spawned = 0
    /\ drains = <<>>
    /\ outcome = [k \in 1..MaxItems |-> "none"]
    /\ popped = <<>>
    /\ batches = 0
    /\ elapsed = BULK_UPLOAD_DELAY
    /\ summary = NoSummary

\* Database.init_database: the table is created empty
InitRates ==
    /\ rate_limits = [s \in Subjects |-> NoRate]
    /\ rate_now = 0
    /\ calls = 0
    /\ admitted = [s \in Subjects |-> [a \in Actions |-> <<>>]]
    /\ answer = [s \in Subjects |-> [a \in Actions |-> "none"]]

\* no delivery request is being handled, nothing was delivered yet
NoReq ==
    [kind |-> "none", pc |-> "done", user |-> 0, movie |-> 0, token |-> 0,
     short_url |-> [kind |-> "none", token |-> 0], files |-> 0, armed |-> 0,
     logged |-> 0, listed |-> TRUE]

InitCleanup ==
    /\ clock = 0
    /\ req = NoReq
    /\ shown = <<>>
    /\ download_logs = <<>>
    /\ jobs = <<>>

\* shorten_url has not been called
NoCall == [api_token |-> FALSE, original_url |-> <<>>, reply |-> "none", status |-> 0, body |-> <<>>]
NoResult == [raised |-> FALSE, value |-> <<>>]

InitShortener ==
    /\ shortener_call = NoCall
    /\ returned = NoResult

InitLedger ==
    /\ now = 0
    /\ users = [s \in Subjects |-> NoUser]
    /\ verifs = <<>>
    /\ issued = 0
    /\ tasks = {}
    /\ last = NoReply

\* no movie was deactivated, nothing was uploaded, no file message is handled
NoMsg == [pc |-> "done", file |-> 0, user |-> 0, allowed |-> TRUE, success |-> "none"]
NoItem == [file |-> 0, allowed |-> TRUE]

InitCatalog ==
    /\ deactivated = {}
    /\ movies = {}
    /\ items = [k \in 1..MaxItems |-> NoItem]
    /\ msg = NoMsg

InitTables ==
    /\ InitCatalog
    /\ InitUploads
    /\ InitRates
    /\ InitCleanup
    /\ InitShortener
    /\ InitLedger

Init ==
    /\ prog \in Programs
    /\ InitTables

InitAFB ==
    /\ prog = "afb"
    /\ InitTables

\* the clock advances, also while handlers are suspended
Tick ==
    /\ now + TickHours <= MaxTime
    /\ now' = now + TickHours
    /\ UNCHANGED <<catalog_vars, cleanup_vars, short_vars, rate_vars, upload_vars, prog, users, verifs, issued, tasks, last>>

\* Movie.query.filter_by(id=movie_id, is_active=True).first() / Database.get_movie_by_id
movie_found_any(m) == TRUE
movie_found(m) == m \in ActiveMovies /\ m \notin deactivated

(* ---- delivery requests ---- *)

\* A "download_<id>" button press, from `await query.answer()` returning to the
\* next await that reaches the network; `open` is the gate's decision.
\*   no movie row: the not-found reply, nothing else
\*   gate closed:  the token is generated and the shortener is awaited
\*   gate open:    send_movie_file calls send_document and awaits it
download_decided(u, m, open) ==
    IF ~movie_found(m)
    THEN UNCHANGED <<issued, tasks>>
    ELSE /\ Cardinality(tasks) < MaxTasks
         /\ IF ~open
            THEN /\ issued < MaxTokens
                 /\ issued' = issued + 1
                 /\ tasks' = tasks \cup {Task("download", u, m, issued + 1, "shorten")}
            ELSE /\ tasks' = tasks \cup {Task("download", u, m, 0, "send")}
                 /\ UNCHANGED issued

\* auto_filter_bot.py AutoFilterBot.handle_download_request: the gate
AFB_gate_open(uid) == TRUE
AFB_gate_shut(uid) == FALSE
AFB_gate(uid) == ~check_user_verification_status(uid).needs_verification

AFB_handle_download_request(u, m) ==
    /\ prog = "afb"
    /\ download_decided(u, m, AFB_gate(u))
    /\ UNCHANGED <<catalog_vars, cleanup_vars, short_vars, rate_vars, upload_vars, prog, now, users, verifs, last>>

\* main_auto_filter.py AutoFilterBot.handle_download_request: the gate
MAF_gate(uid) == users[uid].exists /\ is_verified_today(users[uid])

MAF_handle_download_request(u, m) ==
    /\ prog = "maf"
    /\ download_decided(u, m, MAF_gate(u))
    /\ UNCHANGED <<catalog_vars, cleanup_vars, short_vars, rate_vars, upload_vars, prog, now, users, verifs, last>>

\* bot_handlers.py BotHandlers._handle_download_request: "Send file directly
\* without any verification"
BH_handle_download_request(u, m) ==
    /\ prog = "bh"
    /\ download_decided(u, m, TRUE)
    /\ UNCHANGED <<catalog_vars, cleanup_vars, short_vars, rate_vars, upload_vars, prog, now, users, verifs, last>>

\* create_verification_request / request_verification after the shortener has
\* answered: the row is saved with expires_at read from the clock now, and the
\* challenge link is shown
create_verification_request(i) ==
    /\ i \in tasks
    /\ i.kind = "download" /\ i.pc = "shorten"
    /\ verifs' = Append(verifs, NewVerification(i.user, i.movie, i.token))
    /\ tasks' = tasks \ {i}
    /\ UNCHANGED <<catalog_vars, cleanup_vars, short_vars, rate_vars, upload_vars, prog, now, users, issued, last>>

\* send_movie_file / _send_file_directly: send_document returns or raises; what
\* follows touches neither the ledger nor the users table
send_movie_file(i) ==
    /\ i \in tasks
    /\ i.kind = "download" /\ i.pc = "send"
    /\ tasks' = tasks \ {i}
    /\ UNCHANGED <<catalog_vars, cleanup_vars, short_vars, rate_vars, upload_vars, prog, now, users, verifs, issued, last>>

(* ---- redirect-followed events ---- *)

\* start_command: the sender's row is saved before the "verify_<token>"
\* argument is looked at
save_user(uid) ==
    IF users[uid].exists THEN users ELSE [users EXCEPT ![uid] = NewUser]

\* what the handler does with the resolution: the reply, and on success the
\* movie row is read and the handler suspends at "Verification Successful"
verification_replied(u, tok, res, m) ==
    /\ res = "success" => Cardinality(tasks) < MaxTasks
    /\ last' = Reply(tok, res)
    /\ tasks' = IF res = "success"
                THEN tasks \cup {Task("verify", u, m, tok, "reply")}
                ELSE tasks

\* auto_filter_bot.py start_command + handle_verification_callback, up to the
\* first await that reaches the network
AFB_handle_verification_callback(u, tok) ==
    /\ prog = "afb"
    /\ LET i == FirstUnverified(tok)
           m == IF i = 0 THEN 0 ELSE verifs[i].movie_id
       IN verification_replied(u, tok, verify_result(tok), m)
    /\ verifs' = verify_verifs(tok)
    /\ users' = verify_users(tok, save_user(u))
    /\ UNCHANGED <<catalog_vars, cleanup_vars, short_vars, rate_vars, upload_vars, prog, now, issued>>

\* main_auto_filter.py handle_verification: the users table it leaves; the row
\* marked is the sender's
MAF_verify_users(u, tok, us) ==
    LET i == FirstUnverified(tok) IN
    IF i = 0 \/ ~is_valid(verifs[i]) THEN us
    ELSE IF us[u].exists THEN [us EXCEPT ![u] = mark_verified(us[u])]
    ELSE us

\* main_auto_filter.py start_command + handle_verification
MAF_handle_verification(u, tok) ==
    /\ prog = "maf"
    /\ LET i == FirstUnverified(tok)
           m == IF i = 0 THEN 0 ELSE verifs[i].movie_id
       IN verification_replied(u, tok, verify_result(tok), m)
    /\ verifs' = verify_verifs(tok)
    /\ users' = MAF_verify_users(u, tok, save_user(u))
    /\ UNCHANGED <<catalog_vars, cleanup_vars, short_vars, rate_vars, upload_vars, prog, now, issued>>

\* send_movie_file_direct: the file goes to the chat user who sent the event
send_movie_file_direct(i) ==
    /\ i \in tasks
    /\ i.kind = "verify" /\ i.pc = "reply"
    /\ tasks' = tasks \ {i}
    /\ UNCHANGED <<catalog_vars, cleanup_vars, short_vars, rate_vars, upload_vars, prog, now, users, verifs, issued, last>>

(* ---- ledger maintenance and read-only views ---- *)

\* VerificationSystem.cleanup_expired_verifications
cleanup_expired_verifications ==
    /\ prog = "afb"
    /\ verifs' = cleanup_verifs
    /\ UNCHANGED <<catalog_vars, cleanup_vars, short_vars, rate_vars, upload_vars, prog, now, users, issued, tasks, last>>

\* VerificationSystem.get_verification_stats
get_verification_stats ==
    [total_verifications |-> Len(verifs),
     successful_verifications |-> Cardinality({i \in 1..Len(verifs) : verifs[i].is_verified}),
     pending_verifications |-> Cardinality({i \in 1..Len(verifs) : ~verifs[i].is_verified}),
     expired_verifications |-> Cardinality({i \in 1..Len(verifs) : verifs[i].is_expired})]

\* show_user_stats and show_admin_panel: status and statistics are read and
\* shown, nothing is written
show_user_stats(u) ==
    /\ prog = "afb"
    /\ check_user_verification_status(u).hours_remaining \in 0..24
    /\ UNCHANGED vars

show_admin_panel ==
    /\ prog = "afb"
    /\ get_verification_stats.total_verifications >= 0
    /\ UNCHANGED vars

(* ---- bulk_upload_handler.py ---- *)

\* add_to_upload_queue up to `await update.message.reply_text`: a sender who is
\* no admin, or a message without document and video, returns False at once
add_to_upload_queue(admin, has_file) ==
    /\ prog = "bh"
    /\ IF admin /\ has_file
       THEN /\ appended < MaxItems
            /\ appended' = appended + 1
            /\ upload_queue' = Append(upload_queue, appended + 1)
            /\ replying' = replying + 1
       ELSE UNCHANGED <<appended, upload_queue, replying>>
    /\ UNCHANGED <<is_processing, spawned, drains, outcome, popped, batches, elapsed, summary>>
    /\ UNCHANGED <<catalog_vars, cleanup_vars, short_vars, rate_vars, prog, now, users, verifs, issued, tasks, last>>

\* add_to_upload_queue after reply_text: it returned, and the drain is spawned
\* unless one is running, or it raised, and the except branch returns False
reply_text_done(raised) ==
    /\ replying > 0
    /\ replying' = replying - 1
    /\ spawned' = IF ~raised /\ ~is_processing THEN spawned + 1 ELSE spawned
    /\ UNCHANGED <<upload_queue, is_processing, appended, drains, outcome, popped, batches,
                   elapsed, summary>>
    /\ UNCHANGED <<catalog_vars, cleanup_vars, short_vars, rate_vars, prog, now, users, verifs, issued, tasks, last>>

\* the batch the for loop pops, and what it leaves in the queue
batch_size_all == Len(upload_queue)
batch_size == Min(MAX_CONCURRENT_UPLOADS, Len(upload_queue))
popped_batch_newest ==
    SubSeq(upload_queue, Len(upload_queue) - batch_size + 1, Len(upload_queue))
popped_batch == SubSeq(upload_queue, 1, batch_size)
queue_after_pop_short == SubSeq(upload_queue, batch_size, Len(upload_queue))
queue_after_pop == SubSeq(upload_queue, batch_size + 1, Len(upload_queue))

\* the finally block of _process_upload_queue: the flag is reset and the
\* summary is logged if anything was counted
exit_drain(ds, d) ==
    /\ is_processing' = FALSE
    /\ drains' = SubSeq(ds, 1, d - 1) \o SubSeq(ds, d + 1, Len(ds))
    /\ summary' = IF ds[d].processed_count > 0 \/ ds[d].failed_count > 0
                  THEN [processed |-> ds[d].processed_count,
                        failed |-> ds[d].failed_count]
                  ELSE summary

\* _process_upload_queue from the `while self.upload_queue` test to the next
\* await: a batch is popped and gathered, or the loop ends and the finally
\* block resets the flag and logs the summary. `ds` holds the locals of the
\* running calls, `d` is the one that runs, `flag` the value of is_processing.
while_upload_queue(ds, d, flag) ==
    IF upload_queue # <<>>
    THEN /\ upload_queue' = queue_after_pop
         /\ popped' = popped \o popped_batch
         /\ batches' = batches + 1
         /\ outcome' = [k \in 1..MaxItems |->
                           IF k \in Items(popped_batch) THEN "running" ELSE outcome[k]]
         /\ drains' = [ds EXCEPT ![d].pc = "gather",
                                 ![d].batch = popped_batch,
                                 ![d].taken = @ \cup Items(popped_batch)]
         /\ is_processing' = flag
         /\ elapsed' = 0
         /\ UNCHANGED summary
    ELSE /\ exit_drain(ds, d)
         /\ UNCHANGED <<upload_queue, popped, batches, outcome, elapsed>>

\* `if self.is_processing: return` at the head of _process_upload_queue
already_processing_never == FALSE
already_processing == is_processing

\* a spawned _process_upload_queue task gets to run
process_upload_queue ==
    /\ spawned > 0
    /\ spawned' = spawned - 1
    /\ IF already_processing
       THEN UNCHANGED <<upload_queue, is_processing, drains, outcome, popped, batches,
                        elapsed, summary>>
       ELSE while_upload_queue(Append(drains, NewDrain), Len(drains) + 1, TRUE)
    /\ UNCHANGED <<appended, replying>>
    /\ UNCHANGED <<catalog_vars, cleanup_vars, short_vars, rate_vars, prog, now, users, verifs, issued, tasks, last>>

\* _process_single_upload of one gathered item ends: it returns True, or an
\* exception is caught and it returns False
process_single_upload(k, ok) ==
    /\ outcome[k] = "running"
    /\ outcome' = [outcome EXCEPT ![k] = IF ok THEN "ok" ELSE "fail"]
    /\ UNCHANGED <<upload_queue, is_processing, appended, replying, spawned, drains,
                   popped, batches, elapsed, summary>>
    /\ UNCHANGED <<catalog_vars, cleanup_vars, short_vars, rate_vars, prog, now, users, verifs, issued, tasks, last>>

\* the results of a batch, as the counting loop sees them
count_results_truthy(batch, res) == Cardinality({k \in Items(batch) : outcome[k] = "ok"})
count_results(batch, res) == Cardinality({k \in Items(batch) : outcome[k] = res})

\* asyncio.gather returns: the results are counted, then the drain sleeps if
\* items are waiting and otherwise goes back to the loop test
gather_done(d) ==
    /\ d \in 1..Len(drains)
    /\ drains[d].pc = "gather"
    /\ \A k \in Items(drains[d].batch) : outcome[k] # "running"
    /\ LET counted == [drains EXCEPT
                          ![d].processed_count = @ + count_results(drains[d].batch, "ok"),
                          ![d].failed_count = @ + count_results(drains[d].batch, "fail")]
       IN IF upload_queue # <<>>
          THEN /\ drains' = [counted EXCEPT ![d].pc = "sleep",
                                            ![d].sleep_left = BULK_UPLOAD_DELAY]
               /\ UNCHANGED <<upload_queue, is_processing, elapsed, summary>>
          ELSE /\ upload_queue' = upload_queue
               /\ elapsed' = elapsed
               /\ exit_drain(counted, d)
    /\ outcome' = [k \in 1..MaxItems |->
                      IF k \in Items(drains[d].batch) THEN "done" ELSE outcome[k]]
    /\ UNCHANGED <<appended, replying, spawned, popped, batches>>
    /\ UNCHANGED <<catalog_vars, cleanup_vars, short_vars, rate_vars, prog, now, users, verifs, issued, tasks, last>>

\* asyncio.sleep(Config.BULK_UPLOAD_DELAY) returns
sleep_done(d) ==
    /\ d \in 1..Len(drains)
    /\ drains[d].pc = "sleep"
    /\ drains[d].sleep_left = 0
    /\ while_upload_queue(drains, d, is_processing)
    /\ UNCHANGED <<appended, replying, spawned>>
    /\ UNCHANGED <<catalog_vars, cleanup_vars, short_vars, rate_vars, prog, now, users, verifs, issued, tasks, last>>

\* a quarter of a second passes on the event loop's clock
quarter_second ==
    /\ prog = "bh"
    /\ \/ elapsed < BULK_UPLOAD_DELAY
       \/ \E d \in 1..Len(drains) : drains[d].sleep_left > 0
    /\ elapsed' = Min(elapsed + 1, BULK_UPLOAD_DELAY)
    /\ drains' = [d \in 1..Len(drains) |->
                     [drains[d] EXCEPT !.sleep_left = Max(0, @ - 1)]]
    /\ UNCHANGED <<upload_queue, is_processing, appended, replying, spawned, outcome,
                   popped, batches, summary>>
    /\ UNCHANGED <<catalog_vars, cleanup_vars, short_vars, rate_vars, prog, now, users, verifs, issued, tasks, last>>

(* ---- database.py: check_rate_limit ---- *)

\* `SELECT search_count ... WHERE user_id = ? AND last_search > ?` finds a row
\* whose count has reached the limit
search_refused(row) ==
    /\ row.exists
    /\ row.last_search # NoTime
    /\ row.last_search > rate_now - SearchWindow
    /\ row.search_count >= SearchLimit

upload_refused(row) ==
    /\ row.exists
    /\ row.last_upload # NoTime
    /\ row.last_upload > rate_now - UploadWindow
    /\ row.upload_count >= UploadLimit

\* INSERT OR REPLACE INTO rate_limits (user_id, last_search, search_count):
\* the row is replaced, and the columns that are not named take their defaults
search_recorded(row) ==
    [exists |-> TRUE,
     last_search |-> rate_now,
     search_count |-> IF row.exists /\ row.last_search # NoTime
                         /\ row.last_search > rate_now - SearchWindow
                      THEN row.search_count + 1 ELSE 1,
     last_upload |-> NoTime,
     upload_count |-> 0]

upload_recorded(row) ==
    [exists |-> TRUE,
     last_upload |-> rate_now,
     upload_count |-> IF row.exists /\ row.last_upload # NoTime
                         /\ row.last_upload > rate_now - UploadWindow
                      THEN row.upload_count + 1 ELSE 1,
     last_search |-> NoTime,
     search_count |-> 0]

\* Database.check_rate_limit(user_id, action)
check_rate_limit(u, action) ==
    /\ prog = "bh"
    /\ calls < MaxCalls
    /\ calls' = calls + 1
    /\ LET row == rate_limits[u]
           refused == IF action = "search" THEN search_refused(row)
                      ELSE upload_refused(row)
       IN IF refused
          THEN /\ answer' = [answer EXCEPT ![u][action] = "False"]
               /\ UNCHANGED <<rate_limits, admitted>>
          ELSE /\ answer' = [answer EXCEPT ![u][action] = "True"]
               /\ rate_limits' = [rate_limits EXCEPT ![u] =
                                     IF action = "search" THEN search_recorded(row)
                                     ELSE upload_recorded(row)]
               /\ admitted' = [admitted EXCEPT ![u][action] = Append(@, rate_now)]
    /\ UNCHANGED rate_now
    /\ UNCHANGED <<catalog_vars, cleanup_vars, short_vars, upload_vars, prog, now, users, verifs, issued, tasks, last>>

\* the wall clock advances
seconds_pass ==
    /\ prog = "bh"
    /\ rate_now + TickSeconds <= MaxSeconds
    /\ rate_now' = rate_now + TickSeconds
    /\ UNCHANGED <<rate_limits, calls, admitted, answer>>
    /\ UNCHANGED <<catalog_vars, cleanup_vars, short_vars, upload_vars, prog, now, users, verifs, issued, tasks, last>>

(* ---- specifications ---- *)

\* the ledger of auto_filter_bot.py
NextAFB ==
    \/ Tick
    \/ \E u \in Subjects, m \in MovieIds : AFB_handle_download_request(u, m)
    \/ \E i \in tasks : create_verification_request(i)
    \/ \E i \in tasks : send_movie_file(i)
    \/ \E u \in Subjects, tok \in Tokens : AFB_handle_verification_callback(u, tok)
    \/ \E i \in tasks : send_movie_file_direct(i)
    \/ cleanup_expired_verifications
    \/ \E u \in Subjects : show_user_stats(u)
    \/ show_admin_panel

SpecAFB == InitAFB /\ [][NextAFB]_vars

\* the three entry programs
Next ==
    \/ NextAFB
    \/ \E u \in Subjects, m \in MovieIds : MAF_handle_download_request(u, m)
    \/ \E u \in Subjects, m \in MovieIds : BH_handle_download_request(u, m)
    \/ \E u \in Subjects, tok \in Tokens : MAF_handle_verification(u, tok)

Spec == Init /\ [][Next]_vars

\* the upload queue of bot_handlers.py
InitUpload ==
    /\ prog = "bh"
    /\ InitTables

NextUpload ==
    \/ \E admin, has_file \in BOOLEAN : add_to_upload_queue(admin, has_file)
    \/ \E raised \in BOOLEAN : reply_text_done(raised)
    \/ process_upload_queue
    \/ \E k \in 1..MaxItems, ok \in BOOLEAN : process_single_upload(k, ok)
    \/ \E d \in 1..MaxItems : gather_done(d)
    \/ \E d \in 1..MaxItems : sleep_done(d)
    \/ quarter_second

SpecUpload == InitUpload /\ [][NextUpload]_vars

\* the admission checks of bot_handlers.py
NextRate ==
    \/ \E u \in Subjects, action \in Actions : check_rate_limit(u, action)
    \/ seconds_pass

SpecRate == InitUpload /\ [][NextRate]_vars

\* the event loop runs every task that is ready: a reply that is awaited comes
\* back or raises, a spawned task starts, a started _process_single_upload
\* ends, gather and sleep return, and time passes; nothing obliges an admin
\* to send another file
UploadFairness ==
    /\ WF_vars(\E raised \in BOOLEAN : reply_text_done(raised))
    /\ WF_vars(process_upload_queue)
    /\ WF_vars(\E k \in 1..MaxItems, ok \in BOOLEAN : process_single_upload(k, ok))
    /\ WF_vars(\E d \in 1..MaxItems : gather_done(d))
    /\ WF_vars(\E d \in 1..MaxItems : sleep_done(d))
    /\ WF_vars(quarter_second)

SpecUploadFair == InitUpload /\ [][NextUpload]_vars /\ UploadFairness

(* ---- properties ---- *)

\* the window of the data model: a successful verification less than 24 hours ago
WindowOpen(s) ==
    /\ users[s].last_verified # NoTime
    /\ now - users[s].last_verified < HoursValid

\* the handlers that started, in this step, to answer a delivery request
StartedDownloads == {t \in tasks' \ tasks : t.kind = "download"}

Row(tok) == CHOOSE i \in 1..Len(verifs) : verifs[i].verification_token = tok
HasRow(tok) == \E i \in 1..Len(verifs) : verifs[i].verification_token = tok
SameWindows ==
    \A s \in Subjects :
        /\ users'[s].last_verified = users[s].last_verified
        /\ users'[s].verification_count = users[s].verification_count

GateStepAsStated ==
    \A t \in StartedDownloads :
        /\ t.pc = "send" => WindowOpen(t.user)
        /\ ~WindowOpen(t.user) => t.pc = "shorten"

GateStepAmended ==
    prog \in {"afb", "maf"} =>
        \A t \in StartedDownloads :
            /\ t.pc = "send" <=> WindowOpen(t.user)
            /\ t.pc = "shorten" <=> ~WindowOpen(t.user)

Verified(v) == v.is_verified /\ ~v.is_expired
Expired(v) == v.is_expired /\ ~v.is_verified
Pending(v) == ~v.is_verified /\ ~v.is_expired

OneStateEach ==
    \A i \in 1..Len(verifs) : ~(verifs[i].is_verified /\ verifs[i].is_expired)

TerminalStaysTerminal ==
    \A i \in 1..Len(verifs) :
        /\ i <= Len(verifs')
        /\ verifs'[i].verification_token = verifs[i].verification_token
        /\ Verified(verifs[i]) => Verified(verifs'[i])
        /\ Expired(verifs[i]) => Expired(verifs'[i])

\* C2: under any sequence of create_verification_request, verify_user_by_token
\* and cleanup_expired_verifications no token has both is_verified and
\* is_expired set, and a token that is Verified or Expired stays in that state.
C2_TokenStates == []OneStateEach /\ [][TerminalStaysTerminal]_vars

\* both terminal states are occupied, each by a token that was pending before
C2_Witness ==
    /\ Len(verifs) = 2
    /\ \E i, j \in 1..Len(verifs) : Verified(verifs[i]) /\ Expired(verifs[j])

ResolvedBefore(tok) ==
    \E i \in 1..Len(verifs) :
        verifs[i].verification_token = tok /\ verifs[i].is_verified

SecondResolutionFails ==
    \A u \in Subjects, tok \in Tokens :
        (ResolvedBefore(tok) /\ AFB_handle_verification_callback(u, tok)) =>
            /\ last' = Reply(tok, "invalid")
            /\ SameWindows
            /\ verifs' = verifs

\* C3: after a token was resolved successfully, every later verify_user_by_token
\* with that token fails as invalid, leaves every last_verified unchanged and
\* increments no verification_count.
C3_AtMostOnce == [][SecondResolutionFails]_vars

\* a resolved token was presented again and refused
C3_Witness ==
    \E i \in 1..Len(verifs) :
        /\ verifs[i].is_verified
        /\ last = Reply(verifs[i].verification_token, "invalid")
        /\ users[verifs[i].user_id].verification_count = 1

\* C4 as stated: however the redirect-followed events for one pending token
\* interleave, the token resolves once and the verification_count of the
\* subject it was issued to grows by exactly one: a subject's count equals the
\* number of resolved tokens issued to that subject.
C4_OneSuccessOneCount ==
    \A s \in Subjects :
        users[s].verification_count =
            Cardinality({i \in 1..Len(verifs) :
                            verifs[i].user_id = s /\ verifs[i].is_verified})

LateResolutionExpires ==
    \A u \in Subjects, tok \in Tokens :
        LET i == FirstUnverified(tok) IN
        (/\ i # 0
         /\ now > verifs[i].expires_at
         /\ AFB_handle_verification_callback(u, tok)) =>
            /\ last' = Reply(tok, "expired")
            /\ verifs'[i].is_expired
            /\ ~verifs'[i].is_verified
            /\ \A s \in Subjects : users'[s].last_verified = users[s].last_verified

\* C5: verify_user_by_token called after the token's expires_at fails with the
\* expired outcome, sets the token's is_expired flag and changes no subject's
\* last_verified.
C5_ExpiredNeverSucceeds == [][LateResolutionExpires]_vars

\* a token was presented after its expires_at and refused as expired
C5_Witness ==
    \E i \in 1..Len(verifs) :
        /\ now > verifs[i].expires_at
        /\ last = Reply(verifs[i].verification_token, "expired")
        /\ Expired(verifs[i])
        /\ users[verifs[i].user_id].last_verified = NoTime

(* ---- the window ---- *)

\* a token issued to s was resolved less than 24 hours ago
ResolvedWithinWindow(s) ==
    \E i \in 1..Len(verifs) :
        /\ verifs[i].user_id = s
        /\ verifs[i].is_verified
        /\ now - verifs[i].verified_at < HoursValid

\* C6: check_user_verification_status(S) reports needs_verification = False
\* from the moment a token issued to S is resolved until 24 hours have passed
\* since the newest such resolution, and True from then on and for a subject
\* that never verified.
C6_WindowLasts24h ==
    \A s \in Subjects :
        check_user_verification_status(s).needs_verification
            <=> ~ResolvedWithinWindow(s)

\* exactly 24 hours after the resolution the subject needs verification again
C6_Witness ==
    \E i \in 1..Len(verifs) :
        /\ verifs[i].is_verified
        /\ now - verifs[i].verified_at = HoursValid
        /\ check_user_verification_status(verifs[i].user_id).needs_verification

ResolutionMarksOwner ==
    \A i \in 1..Len(verifs) :
        (~verifs[i].is_verified /\ i <= Len(verifs') /\ verifs'[i].is_verified) =>
            /\ users'[verifs[i].user_id].last_verified = now
            /\ \A s \in Subjects \ {verifs[i].user_id} :
                   users'[s].last_verified = users[s].last_verified

\* C7 as stated: a successful resolution of a token sets last_verified = now
\* for the subject the token was issued to and changes no other subject's
\* last_verified, whichever chat user delivers the event.
C7_OwnerIsMarked == [][ResolutionMarksOwner]_vars

Live(v) == ~v.is_verified /\ ~v.is_expired /\ now < v.expires_at

\* C8 as stated: at most one live (pending and unexpired) token exists for a
\* (subject, resource) pair.
C8_OneLiveTokenPerPair ==
    \A i, j \in 1..Len(verifs) :
        (/\ Live(verifs[i]) /\ Live(verifs[j])
         /\ verifs[i].user_id = verifs[j].user_id
         /\ verifs[i].movie_id = verifs[j].movie_id) => i = j

OpenWindowGrants ==
    \A u \in Subjects, m \in ActiveMovies :
        (WindowOpen(u) /\ AFB_handle_download_request(u, m)) =>
            /\ Task("download", u, m, 0, "send") \in tasks'
            /\ verifs' = verifs
            /\ issued' = issued

\* C9: a delivery request for an existing resource by a subject whose window is
\* open goes straight to sending the file and creates no token and no row of
\* the token table.
C9_OpenWindowNoChallenge == [][OpenWindowGrants]_vars

\* the one challenge the subject passed is the only token ever generated, and
\* a file is being sent to that subject
C9_Witness ==
    /\ prog = "afb"
    /\ issued = 1 /\ Len(verifs) = 1
    /\ \E t \in tasks :
           /\ t = Task("download", verifs[1].user_id, 1, 0, "send")
           /\ WindowOpen(t.user)

OnlyResolutionStamps ==
    \A s \in Subjects :
        users'[s].last_verified # users[s].last_verified =>
            \E i \in 1..Len(verifs) :
                /\ verifs[i].user_id = s
                /\ ~verifs[i].is_verified
                /\ verifs'[i].is_verified
                /\ last' = Reply(verifs[i].verification_token, "success")
                /\ users'[s].last_verified = now

\* C10: a subject's last_verified changes only in a successful resolution of a
\* token issued to that subject; every other step (status check, issuing a
\* challenge, failed or expired resolution, cleanup, stats, file delivery)
\* leaves every last_verified unchanged.
C10_OnlyResolutionStamps == [][OnlyResolutionStamps]_vars

\* a resolution has stamped the subject, later than the start of the run
C10_Witness ==
    \E i \in 1..Len(verifs) :
        /\ last = Reply(verifs[i].verification_token, "success")
        /\ verifs[i].verified_at > 0
        /\ users[verifs[i].user_id].last_verified = verifs[i].verified_at

(* ---- the upload queue ---- *)

\* C11: at most one _process_upload_queue call is between setting
\* is_processing = True and resetting it, whatever the interleaving of
\* add_to_upload_queue calls and spawned drain tasks; the flag is set exactly
\* while that call is active, so a task spawned meanwhile pops nothing.
C11_SingleDrain ==
    /\ Len(drains) <= 1
    /\ is_processing <=> Len(drains) = 1

\* a drain is gathering a batch while another spawned task waits to run, an
\* enqueue is suspended at its reply and items are queued
C11_Witness ==
    /\ Len(drains) = 1
    /\ drains[1].pc = "gather"
    /\ spawned > 0
    /\ replying > 0
    /\ upload_queue # <<>>

NoRepeats(q) == \A i, j \in 1..Len(q) : q[i] = q[j] => i = j

\* C12: every item appended is in the queue until a drain pops it, is then
\* handed to _process_single_upload, and is never in the queue or handed over
\* a second time.
C12_QueuedUntilPoppedOnce ==
    /\ \A k \in 1..appended : (k \in Items(upload_queue)) # (k \in Items(popped))
    /\ Items(upload_queue) \cup Items(popped) = 1..appended
    /\ NoRepeats(upload_queue)
    /\ NoRepeats(popped)

\* a full batch was popped while later items wait in the queue
C12_Witness ==
    /\ Len(popped) >= MAX_CONCURRENT_UPLOADS
    /\ upload_queue # <<>>
    /\ Len(drains) = 1

AllProcessed ==
    /\ upload_queue = <<>>
    /\ Len(popped) = appended
    /\ \A k \in 1..MaxItems : outcome[k] # "running"
    /\ ~is_processing

Running == {k \in 1..MaxItems : outcome[k] = "running"}

BatchAfterBatch ==
    popped' # popped =>
        /\ Running = {}
        /\ Len(popped') > Len(popped)
        /\ \A i \in 1..Len(popped') : popped'[i] = i

\* C14: items leave the queue in insertion order, and a batch is popped only
\* when no item of an earlier batch is still being processed; inside one batch
\* the items end in any order.
C14_BatchesInOrder == [][BatchAfterBatch]_vars

\* the last item popped, alone in the second batch, is being processed after
\* all items of the first batch were counted
C14_Witness ==
    /\ Len(popped) > MAX_CONCURRENT_UPLOADS
    /\ Running = {Len(popped)}
    /\ Len(drains) = 1
    /\ drains[1].processed_count + drains[1].failed_count = MAX_CONCURRENT_UPLOADS

Failed(batch) == {k \in Items(batch) : outcome[k] = "fail"}
Succeeded(batch) == {k \in Items(batch) : outcome[k] = "ok"}

\* what a drain has counted so far and what it is still gathering add up to
\* what it popped
CountsMatchPopped ==
    \A d \in 1..Len(drains) :
        drains[d].processed_count + drains[d].failed_count
            + (IF drains[d].pc = "gather" THEN Len(drains[d].batch) ELSE 0)
        = Cardinality(drains[d].taken)

\* a failing item ends alone: the drain and the other items are as they were
FailureIsolated ==
    \A k \in 1..MaxItems :
        (outcome[k] = "running" /\ outcome'[k] = "fail") =>
            /\ drains' = drains
            /\ is_processing' = is_processing
            /\ upload_queue' = upload_queue
            /\ \A j \in 1..MaxItems \ {k} : outcome'[j] = outcome[j]

\* the counting loop adds each result once, and the summary of a drain that
\* ends accounts for every item it popped
CountedOnce ==
    \A d \in 1..Len(drains) :
        (drains[d].pc = "gather" /\ gather_done(d)) =>
            LET ended == Len(drains') < Len(drains)
                processed == IF ended THEN summary'.processed
                             ELSE drains'[d].processed_count
                failed == IF ended THEN summary'.failed ELSE drains'[d].failed_count
            IN /\ failed = drains[d].failed_count + Cardinality(Failed(drains[d].batch))
               /\ processed = drains[d].processed_count
                                 + Cardinality(Succeeded(drains[d].batch))
               /\ ended => processed + failed = Cardinality(drains[d].taken)
               /\ ~ended => drains'[d].pc = "sleep" /\ upload_queue # <<>>

\* C15: a failing item leaves the rest of its batch and the drain untouched,
\* the drain goes on to the following batches, each result is counted exactly
\* once, a failure as failed, and when the drain ends processed_count +
\* failed_count is the number of items it popped.
C15_FailuresCounted ==
    []CountsMatchPopped /\ [][FailureIsolated /\ CountedOnce]_vars

\* a drain ended after more than one batch, with successes and failures
C15_Witness ==
    /\ drains = <<>>
    /\ summary.failed > 0
    /\ summary.processed > 0
    /\ summary.processed + summary.failed > MAX_CONCURRENT_UPLOADS

BatchStartsPaced ==
    (popped # <<>> /\ popped' # popped) => elapsed >= BULK_UPLOAD_DELAY

\* C16 as stated: when a batch starts, at least BULK_UPLOAD_DELAY has passed
\* since the previous batch started, also when the batch belongs to a drain
\* that a later enqueue restarted.
C16_DelayBetweenBatches == [][BatchStartsPaced]_vars

\* ceil(n / MAX_CONCURRENT_UPLOADS)
FullBatches(n) == (n + MAX_CONCURRENT_UPLOADS - 1) \div MAX_CONCURRENT_UPLOADS

AllPopped == appended >= 1 /\ upload_queue = <<>> /\ Len(popped) = appended

\* C17 as stated: whatever the timing of the enqueues, once the N items
\* enqueued have all been popped they were popped in exactly ceil(N/5) batches.
C17_ExactlyCeilBatches == AllPopped => batches = FullBatches(appended)

BatchTakesUpToFive ==
    popped' # popped =>
        /\ batches' = batches + 1
        /\ Len(popped') - Len(popped) = Min(MAX_CONCURRENT_UPLOADS, Len(upload_queue))
        /\ Len(popped') - Len(popped) \in 1..MAX_CONCURRENT_UPLOADS

BatchCountBounds ==
    /\ FullBatches(Len(popped)) <= batches
    /\ batches <= Len(popped)

\* C17 amended: every batch holds the items queued at the moment it is popped,
\* at least 1 and at most MAX_CONCURRENT_UPLOADS = 5 of them, so N items are
\* processed in at least ceil(N/5) and at most N batches, depending on how the
\* enqueues fall between the batches.
C17_BatchesBetweenCeilAndN == []BatchCountBounds /\ [][BatchTakesUpToFive]_vars

\* six items were processed in ceil(6/5) = 2 batches
C17_Witness ==
    /\ AllPopped
    /\ appended = MAX_CONCURRENT_UPLOADS + 1
    /\ batches = 2
    /\ Running = {}

NothingRunsMeanwhile ==
    replying > 0 =>
        /\ popped' = popped
        /\ drains' = drains
        /\ is_processing' = is_processing
        /\ outcome' = outcome

\* C18 as stated: add_to_upload_queue has no suspension point between the
\* append and the spawn decision, so while a call is between the two no drain
\* task runs: nothing is popped, no result arrives and the flag keeps its value.
C18_AppendAndSpawnAtomic == [][NothingRunsMeanwhile]_vars

(* ---- admission checks ---- *)

\* no window of the given length, opened by an admitted call, holds more than
\* `limit` admitted calls
WithinLimit(times, limit, window) ==
    \A i \in 1..Len(times) :
        Cardinality({j \in i..Len(times) : times[j] - times[i] < window}) <= limit

\* C19 as stated: whatever searches and uploads a subject asks for, the calls
\* of check_rate_limit that return True number at most 5 searches in any 60
\* seconds and at most 10 uploads in any hour.
C19_AtMostLimitPerWindow ==
    \A s \in Subjects :
        /\ WithinLimit(admitted[s]["search"], SearchLimit, SearchWindow)
        /\ WithinLimit(admitted[s]["upload"], UploadLimit, UploadWindow)

\* the subject's latest search was refused after five searches admitted within
\* 60 seconds, and 60 seconds have passed since the first of the five
WindowOfFiveElapsed(s) ==
    LET times == admitted[s]["search"]
        n == Len(times)
    IN /\ answer[s]["search"] = "False"
       /\ n >= SearchLimit
       /\ times[n] - times[n - SearchLimit + 1] < SearchWindow
       /\ rate_now - times[n - SearchLimit + 1] >= SearchWindow

AdmittedAgain ==
    \A s \in Subjects :
        (WindowOfFiveElapsed(s) /\ check_rate_limit(s, "search")) =>
            answer'[s]["search"] = "True"

\* C20 as stated: after a refusal caused by 5 searches admitted within 60
\* seconds, a search made once 60 seconds have passed since the first of the
\* five is admitted.
C20_AdmittedAfterWindow == [][AdmittedAgain]_vars

\* the calls of the action that were admitted within the last window length
UsesInWindow(s, action) ==
    LET times == admitted[s][action]
        window == IF action = "search" THEN SearchWindow ELSE UploadWindow
    IN Cardinality({i \in 1..Len(times) : times[i] > rate_now - window})

LimitOf(action) == IF action = "search" THEN SearchLimit ELSE UploadLimit

AdmitsBelowLimit ==
    \A s \in Subjects, action \in Actions :
        check_rate_limit(s, action) =>
            /\ answer'[s][action] = "True" <=> UsesInWindow(s, action) < LimitOf(action)
            /\ answer'[s][action] = "True" =>
                   Len(admitted'[s][action]) = Len(admitted[s][action]) + 1
            /\ answer'[s][action] = "False" => rate_limits' = rate_limits

\* C21 as stated: check_rate_limit returns True, recording one use, exactly
\* when fewer than `limit` uses of the action were admitted to the subject
\* within the last window length, and a call that returns False leaves the
\* rate_limits table as it was.
C21_TrueIffBelowLimit == [][AdmitsBelowLimit]_vars

BucketsApart ==
    \A s \in Subjects, action \in Actions :
        check_rate_limit(s, action) =>
            /\ \A o \in Subjects \ {s} : rate_limits'[o] = rate_limits[o]
            /\ action = "search" =>
                   /\ rate_limits'[s].upload_count = rate_limits[s].upload_count
                   /\ rate_limits'[s].last_upload = rate_limits[s].last_upload
            /\ action = "upload" =>
                   /\ rate_limits'[s].search_count = rate_limits[s].search_count
                   /\ rate_limits'[s].last_search = rate_limits[s].last_search

\* C22 as stated: a search check leaves the subject's upload count and upload
\* timestamp unchanged, an upload check leaves the search count and search
\* timestamp unchanged, and no check changes another subject's row.
C22_BucketsIndependent == [][BucketsApart]_vars

(* ---- url_shortener.py: URLShortener.shorten_url ---- *)

\* texts are sequences of characters
Http == <<"h", "t", "t", "p">>
MovieUrl(m) == Http \o <<":", "m", m>>
ShortUrl == Http \o <<":", "s">>
Blank == {" ", "\n"}

\* what the service may answer with: the short link, the short link inside
\* white space, nothing, white space alone, an error text, the link in capitals,
\* a text shorter than the prefix, and the long link itself
Bodies ==
    {ShortUrl, <<" ">> \o ShortUrl \o <<"\n">>, <<>>, <<" ", "\n">>,
     <<"e", "r", "r">>, <<"H", "T", "T", "P", ":", "s">>, <<"h", "t", "t">>,
     MovieUrl("1")}

Statuses == {200, 404, 500}

\* the calls: with or without the API token, and what session.get does
\* (answers, raises aiohttp.ClientError, runs into ClientTimeout(total=30))
ShortenerCalls ==
    {[api_token |-> t, original_url |-> MovieUrl(m), reply |-> "answers", status |-> st, body |-> b] :
        t \in BOOLEAN, m \in {"1", "2"}, st \in Statuses, b \in Bodies}
    \cup
    {[api_token |-> t, original_url |-> MovieUrl(m), reply |-> r, status |-> 0, body |-> <<>>] :
        t \in BOOLEAN, m \in {"1", "2"}, r \in {"raises", "timeout"}}

\* str.strip()
RECURSIVE lstrip(_)
lstrip(text) ==
    IF text # <<>> /\ Head(text) \in Blank THEN lstrip(Tail(text)) ELSE text

RECURSIVE rstrip(_)
rstrip(text) ==
    IF text # <<>> /\ text[Len(text)] \in Blank
    THEN rstrip(SubSeq(text, 1, Len(text) - 1))
    ELSE text

strip(text) == rstrip(lstrip(text))

\* str.startswith(prefix)
startswith(text, prefix) ==
    /\ Len(text) >= Len(prefix)
    /\ SubSeq(text, 1, Len(prefix)) = prefix

\* `if response.status == 200:` ... `if shortened_url and shortened_url.startswith('http'):`
accepted_any_status(status, shortened_url) ==
    shortened_url # <<>> /\ startswith(shortened_url, Http)
accepted(status, shortened_url) ==
    /\ status = 200
    /\ shortened_url # <<>> /\ startswith(shortened_url, Http)

\* the value shorten_url returns for a call; every exception raised inside the
\* try block, the timeout included, is caught by `except Exception` and leads to
\* the final `return original_url`
shorten_url_returns(call) ==
    IF ~call.api_token THEN [raised |-> FALSE, value |-> call.original_url]
    ELSE IF call.reply # "answers" THEN [raised |-> FALSE, value |-> call.original_url]
    ELSE IF accepted(call.status, strip(call.body))
         THEN [raised |-> FALSE, value |-> strip(call.body)]
         ELSE [raised |-> FALSE, value |-> call.original_url]

\* one call of shorten_url
shorten_url ==
    /\ shortener_call # NoCall
    /\ returned = NoResult
    /\ returned' = shorten_url_returns(shortener_call)
    /\ UNCHANGED <<catalog_vars, cleanup_vars, shortener_call, rate_vars, upload_vars, prog, now, users,
                   verifs, issued, tasks, last>>

\* the next caller (handle_file_upload, _process_single_upload) prepares its call
next_shortener_call(call) ==
    /\ returned # NoResult
    /\ shortener_call' = call
    /\ returned' = NoResult
    /\ UNCHANGED <<catalog_vars, cleanup_vars, rate_vars, upload_vars, prog, now, users, verifs, issued,
                   tasks, last>>

InitShorten ==
    /\ prog = "bh"
    /\ InitCatalog
    /\ InitUploads
    /\ InitRates
    /\ InitCleanup
    /\ InitLedger
    /\ shortener_call \in ShortenerCalls
    /\ returned = NoResult

NextShorten ==
    \/ shorten_url
    \/ \E call \in ShortenerCalls : next_shortener_call(call)

SpecShorten == InitShorten /\ [][NextShorten]_vars

ServiceFailed(call) ==
    \/ ~call.api_token
    \/ call.reply # "answers"
    \/ call.status # 200
    \/ ~startswith(strip(call.body), Http)

\* C28: shorten_url never raises; whenever the API token is missing, the
\* service answers with a status other than 200 or with a body that (white
\* space stripped) does not start with "http", or the request raises or times
\* out, it returns the original URL unchanged; it returns a different URL only
\* when the service answered 200 with a body starting with "http".
C28_ShortenNeverRaises ==
    returned # NoResult =>
        /\ ~returned.raised
        /\ ServiceFailed(shortener_call) => returned.value = shortener_call.original_url
        /\ returned.value # shortener_call.original_url =>
               /\ shortener_call.reply = "answers"
               /\ shortener_call.status = 200
               /\ startswith(strip(shortener_call.body), Http)
               /\ returned.value = strip(shortener_call.body)

\* a call that ran into the timeout has returned the original URL
C28_Witness ==
    /\ returned # NoResult
    /\ shortener_call.api_token /\ shortener_call.reply = "timeout"
    /\ returned.value = shortener_call.original_url

(* ---- cleanup jobs: job_queue.run_once and FileManager.schedule_file_deletion ---- *)

\* timedelta(minutes=Config.AUTO_DELETE_MINUTES), in seconds
AutoDeleteSeconds == 60 * AUTO_DELETE_MINUTES

\* the delays schedule_file_deletion is called with
DelaySeconds == {0, TickClock}

\* a one-shot job of the job queue ("job") or a schedule_file_deletion
\* coroutine ("task"); `runs` counts the executions of its callback
Job(kind, u, m, delay) ==
    [kind |-> kind, user |-> u, movie |-> m, armed_at |-> clock, delay |-> delay,
     state |-> "armed", runs |-> 0, cancels |-> 0]

\* the job is on the queue, the task is at its sleep
Armed_after_cancel(j) == jobs[j].state \in {"armed", "cancelled"}
Armed(j) == jobs[j].state = "armed"

\* the scheduler runs a job, and asyncio.sleep returns, once the delay has passed
job_due_at_once(job) == TRUE
job_due(job) == clock >= job.armed_at + job.delay

\* time passes; the bound on the clock does not stop it while a job waits
clock_tick ==
    /\ \/ clock + TickClock <= MaxClock
       \/ \E j \in 1..Len(jobs) : Armed(j) /\ ~job_due(jobs[j])
    /\ clock' = clock + TickClock
    /\ UNCHANGED <<req, shown, download_logs, jobs>>
    /\ UNCHANGED <<catalog_vars, short_vars, rate_vars, upload_vars, prog, now, users, verifs, issued,
                   tasks, last>>

\* the job has run: it is taken off the queue, whatever send_message does
ran(job) == [job EXCEPT !.state = "done", !.runs = @ + 1]

\* auto_delete_file / _auto_delete_file, run by the job queue
auto_delete_file(j) ==
    /\ j \in 1..Len(jobs)
    /\ jobs[j].kind = "job" /\ Armed(j) /\ job_due(jobs[j])
    /\ jobs' = [jobs EXCEPT ![j] = ran(@)]
    /\ UNCHANGED <<clock, req, shown, download_logs>>
    /\ UNCHANGED <<catalog_vars, short_vars, rate_vars, upload_vars, prog, now, users, verifs, issued,
                   tasks, last>>

\* FileManager.schedule_file_deletion, up to `await asyncio.sleep(delay_seconds)`
schedule_file_deletion(delay_seconds) ==
    /\ Len(jobs) < MaxJobs
    /\ clock <= MaxClock
    /\ jobs' = Append(jobs, Job("task", 0, 0, delay_seconds))
    /\ UNCHANGED <<clock, req, shown, download_logs>>
    /\ UNCHANGED <<catalog_vars, short_vars, rate_vars, upload_vars, prog, now, users, verifs, issued,
                   tasks, last>>

\* FileManager.schedule_file_deletion, from the return of the sleep:
\* delete_file is called
delete_file(j) ==
    /\ j \in 1..Len(jobs)
    /\ jobs[j].kind = "task" /\ Armed(j) /\ job_due(jobs[j])
    /\ jobs' = [jobs EXCEPT ![j] = ran(@)]
    /\ UNCHANGED <<clock, req, shown, download_logs>>
    /\ UNCHANGED <<catalog_vars, short_vars, rate_vars, upload_vars, prog, now, users, verifs, issued,
                   tasks, last>>

\* Job.schedule_removal() on a job, Task.cancel() on a deletion task: a job
\* not yet run is taken off the queue; the CancelledError is raised at the
\* sleep, so the delete_file call after it is skipped; after the run there is
\* nothing left to cancel
cancel(j) ==
    /\ j \in 1..Len(jobs)
    /\ jobs[j].cancels = 0
    /\ jobs' = [jobs EXCEPT ![j] = [@ EXCEPT !.cancels = 1,
                                             !.state = IF @ = "armed" THEN "cancelled" ELSE @]]
    /\ UNCHANGED <<clock, req, shown, download_logs>>
    /\ UNCHANGED <<catalog_vars, short_vars, rate_vars, upload_vars, prog, now, users, verifs, issued,
                   tasks, last>>

\* the process is stopped and started again: the job queue, the event loop and
\* the upload queue start empty, the handlers and the drain in flight are gone,
\* the database is as it was
restart ==
    /\ jobs' = [j \in 1..Len(jobs) |->
                   IF Armed(j) THEN [jobs[j] EXCEPT !.state = "lost"] ELSE jobs[j]]
    /\ req' = NoReq
    /\ msg' = [msg EXCEPT !.pc = "done"]
    /\ upload_queue' = <<>>
    /\ is_processing' = FALSE
    /\ replying' = 0
    /\ spawned' = 0
    /\ drains' = <<>>
    /\ outcome' = [k \in 1..MaxItems |->
                      IF outcome[k] = "running" THEN "stopped" ELSE outcome[k]]
    /\ UNCHANGED <<appended, popped, batches, elapsed, summary>>
    /\ UNCHANGED <<deactivated, movies, items>>
    /\ UNCHANGED <<clock, shown, download_logs>>
    /\ UNCHANGED <<short_vars, rate_vars, prog, now, users, verifs, issued, tasks, last>>

\* Database.get_files_to_delete: the download_logs rows whose auto-delete
\* date has come and is not NULL
get_files_to_delete ==
    {i \in 1..Len(download_logs) :
        /\ download_logs[i].auto_delete_date # NoTime
        /\ download_logs[i].auto_delete_date <= clock}

(* ---- delivery requests, cut at every await that reaches the network ---- *)

\* the links a challenge can carry: the shortener's, the callback URL
\* "https://t.me/<bot>?start=verify_<token>", and "https://short.link/<token[:8]>"
NoUrl == [kind |-> "none", token |-> 0]
Shortened(tok) == [kind |-> "shortened", token |-> tok]
Callback(tok) == [kind |-> "callback", token |-> tok]
ShortLink(tok) == [kind |-> "short.link", token |-> tok]

\* what session.post to the shortener does
ShortenerOutcomes == {"success", "http_error", "not_success", "raises", "timeout"}

\* verification_system.py VerificationSystem._create_short_url
create_short_url(shortener, tok) ==
    CASE shortener = "success" -> Shortened(tok)
      [] shortener \in {"http_error", "not_success"} -> ShortLink(tok)
      [] OTHER -> Callback(tok)

\* main_auto_filter.py AutoFilterBot.create_short_url
MAF_create_short_url(shortener, tok) ==
    IF shortener = "success" THEN Shortened(tok) ELSE Callback(tok)

\* the handler of a new update starts
Begin(kind, u, m, tok, pc) ==
    [kind |-> kind, pc |-> pc, user |-> u, movie |-> m, token |-> tok,
     short_url |-> NoUrl, files |-> 0, armed |-> 0, logged |-> 0,
     listed |-> m \notin deactivated]

\* DownloadLog(user_id, movie_id, auto_delete_time) / Database.log_download
log_download(u, m) ==
    Append(download_logs, [user_id |-> u, movie_id |-> m,
                           auto_delete_date |-> clock + AutoDeleteSeconds])

\* the updates handled stay within the bounds on rows and jobs
CanBegin ==
    /\ req.pc = "done"
    /\ clock <= MaxClock
    /\ Len(download_logs) < MaxLogs
    /\ Len(jobs) < MaxJobs

\* what a segment of a handler does when the call it awaited returns or raises:
\* where it goes on, what the requester sees, whether a file went out, whether a
\* download is logged, whether run_once is called
Effect(pc, show, file, log, arm) ==
    [pc |-> pc, show |-> show, file |-> file, log |-> log, arm |-> arm]
Goes(pc) == Effect(pc, <<>>, 0, 0, 0)
Shows(what, pc) == Effect(pc, <<what>>, 0, 0, 0)

\* handle_download_request of auto_filter_bot.py and main_auto_filter.py,
\* after the catalog lookup: nothing catches what edit_message_text raises
download_replied(pc, ok) ==
    CASE pc = "edit_not_found" -> IF ok THEN Shows("denial", "done") ELSE Goes("done")
      [] pc = "edit_link" -> IF ok THEN Shows("link", "done") ELSE Goes("done")

\* auto_filter_bot.py AutoFilterBot.send_movie_file
AFB_send_movie_file(pc, ok) ==
    CASE pc = "send_document" ->
             IF ok THEN Effect("edit_sent", <<"file">>, 1, 0, 0) ELSE Goes("edit_dm_error")
      [] pc = "edit_sent" ->
             IF ok THEN Effect("done", <<"note">>, 0, 0, 1) ELSE Goes("edit_dm_error")
      [] pc = "edit_dm_error" ->
             IF ok THEN Shows("denial", "done") ELSE Goes("edit_error")
      [] pc = "edit_error" ->
             IF ok THEN Shows("denial", "done") ELSE Goes("done")
      [] OTHER -> download_replied(pc, ok)

\* main_auto_filter.py AutoFilterBot.send_movie_file
MAF_send_movie_file(pc, ok) ==
    CASE pc = "send_document" ->
             IF ok THEN Effect("edit_sent", <<"file">>, 1, 0, 0) ELSE Goes("edit_error")
      [] pc = "edit_sent" ->
             IF ok THEN Effect("done", <<"note">>, 0, 0, 1) ELSE Goes("edit_error")
      [] pc = "edit_error" ->
             IF ok THEN Shows("denial", "done") ELSE Goes("done")
      [] OTHER -> download_replied(pc, ok)

\* bot_handlers.py BotHandlers._handle_download_request, _send_file_directly
\* and the except clause of handle_callback around them
BH_send_file_directly(pc, ok) ==
    CASE pc = "edit_not_found" ->
             IF ok THEN Shows("denial", "done") ELSE Goes("edit_error_request")
      [] pc = "send_document" ->
             IF ok THEN Effect("edit_sent", <<"file">>, 1, 0, 1) ELSE Goes("reply_document")
      [] pc = "edit_sent" ->
             IF ok THEN Shows("note", "done") ELSE Goes("reply_document")
      [] pc = "reply_document" ->
             IF ok THEN Effect("edit_sent_chat", <<"file">>, 1, 0, 0) ELSE Goes("edit_sorry")
      [] pc = "edit_sent_chat" ->
             IF ok THEN Shows("note", "done") ELSE Goes("edit_sorry")
      [] pc = "edit_sorry" ->
             IF ok THEN Shows("denial", "done") ELSE Goes("edit_error")
      [] pc = "edit_error" ->
             IF ok THEN Shows("denial", "done") ELSE Goes("edit_error_request")
      [] pc = "edit_error_request" ->
             IF ok THEN Shows("denial", "done") ELSE Goes("edit_error_callback")
      [] pc = "edit_error_callback" ->
             IF ok THEN Shows("denial", "done") ELSE Goes("done")

\* handle_verification_callback / handle_verification: the reply to the
\* redirect-followed event; on success the download is logged next
verification_reply(pc, ok) ==
    CASE pc = "reply_failed" -> IF ok THEN Shows("denial", "done") ELSE Goes("done")
      [] pc = "reply_success" ->
             IF ok THEN Effect("send_document", <<"note">>, 0, 1, 0) ELSE Goes("done")
      [] pc = "reply_error" -> IF ok THEN Shows("denial", "done") ELSE Goes("done")

\* auto_filter_bot.py AutoFilterBot.send_movie_file_direct
AFB_send_movie_file_direct(pc, ok) ==
    CASE pc = "send_document" ->
             IF ok THEN Effect("done", <<"file">>, 1, 0, 1) ELSE Goes("reply_error")
      [] OTHER -> verification_reply(pc, ok)

\* main_auto_filter.py AutoFilterBot.send_movie_file_direct
MAF_send_movie_file_direct(pc, ok) ==
    CASE pc = "send_document" ->
             IF ok THEN Effect("done", <<"file">>, 1, 0, 0) ELSE Goes("reply_error")
      [] OTHER -> verification_reply(pc, ok)

\* the segment the handler in flight runs when its await returns (ok) or raises
segment(ok) ==
    CASE req.kind = "verify" /\ prog = "afb" -> AFB_send_movie_file_direct(req.pc, ok)
      [] req.kind = "verify" /\ prog = "maf" -> MAF_send_movie_file_direct(req.pc, ok)
      [] req.kind = "download" /\ prog = "afb" -> AFB_send_movie_file(req.pc, ok)
      [] req.kind = "download" /\ prog = "maf" -> MAF_send_movie_file(req.pc, ok)
      [] req.kind = "download" /\ prog = "bh" -> BH_send_file_directly(req.pc, ok)

\* an awaited call to Telegram returns or raises and the handler runs on to
\* its next await
telegram_returns(ok) ==
    /\ req.pc \notin {"done", "shorten"}
    /\ LET e == segment(ok) IN
       /\ req' = [req EXCEPT !.pc = e.pc, !.files = @ + e.file, !.armed = @ + e.arm,
                              !.logged = @ + e.log]
       /\ shown' = shown \o e.show
       /\ download_logs' = IF e.log = 1 THEN log_download(req.user, req.movie)
                           ELSE download_logs
       /\ jobs' = IF e.arm = 1
                  THEN Append(jobs, Job("job", req.user, req.movie, AutoDeleteSeconds))
                  ELSE jobs
    /\ UNCHANGED clock
    /\ UNCHANGED <<catalog_vars, short_vars, rate_vars, upload_vars, prog, now, users, verifs, issued,
                   tasks, last>>

\* a "download_<id>" button press, from `await query.answer()` returning to the
\* first await that reaches the network: the catalog lookup (which the store
\* may fail), then the gate's decision; `uncaught` is where the handler goes
\* when the lookup raises
download_begun(u, m, open, store_ok, uncaught) ==
    /\ CanBegin
    /\ shown' = <<>>
    /\ IF ~store_ok
       THEN /\ req' = Begin("download", u, m, 0, uncaught)
            /\ UNCHANGED <<issued, download_logs>>
       ELSE IF ~movie_found(m)
       THEN /\ req' = Begin("download", u, m, 0, "edit_not_found")
            /\ UNCHANGED <<issued, download_logs>>
       ELSE IF ~open
       THEN /\ issued < MaxTokens
            /\ issued' = issued + 1
            /\ req' = Begin("download", u, m, issued + 1, "shorten")
            /\ UNCHANGED download_logs
       ELSE /\ req' = [Begin("download", u, m, 0, "send_document") EXCEPT !.logged = 1]
            /\ download_logs' = log_download(u, m)
            /\ UNCHANGED issued
    /\ UNCHANGED <<clock, jobs>>
    /\ UNCHANGED <<catalog_vars, short_vars, rate_vars, upload_vars, prog, now, users, verifs, tasks, last>>

\* auto_filter_bot.py handle_callback -> handle_download_request
AFB_download_begin(u, m, store_ok) ==
    /\ prog = "afb"
    /\ download_begun(u, m, AFB_gate(u), store_ok, "done")

\* main_auto_filter.py handle_callback -> handle_download_request
MAF_download_begin(u, m, store_ok) ==
    /\ prog = "maf"
    /\ download_begun(u, m, MAF_gate(u), store_ok, "done")

\* bot_handlers.py handle_callback -> _handle_download_request
BH_download_begin(u, m, store_ok) ==
    /\ prog = "bh"
    /\ download_begun(u, m, TRUE, store_ok, "edit_error_request")

\* create_verification_request / request_verification from the return of the
\* shortener call: the link is chosen, the row is saved, the challenge is sent
shortener_returns(shortener) ==
    /\ req.pc = "shorten"
    /\ LET url == IF prog = "afb" THEN create_short_url(shortener, req.token)
                  ELSE MAF_create_short_url(shortener, req.token)
       IN req' = [req EXCEPT !.pc = "edit_link", !.short_url = url]
    /\ verifs' = Append(verifs, NewVerification(req.user, req.movie, req.token))
    /\ UNCHANGED <<clock, shown, download_logs, jobs>>
    /\ UNCHANGED <<catalog_vars, short_vars, rate_vars, upload_vars, prog, now, users, issued, tasks, last>>

\* a "/start verify_<token>" message, up to the reply: the ledger resolves the
\* token, `us` is the users table the program leaves
callback_begun(u, tok, us) ==
    /\ CanBegin
    /\ shown' = <<>>
    /\ LET i == FirstUnverified(tok)
           m == IF i = 0 THEN 0 ELSE verifs[i].movie_id
       IN req' = Begin("verify", u, m, tok,
                       IF verify_result(tok) = "success" THEN "reply_success"
                       ELSE "reply_failed")
    /\ verifs' = verify_verifs(tok)
    /\ users' = us
    /\ UNCHANGED <<clock, download_logs, jobs>>
    /\ UNCHANGED <<catalog_vars, short_vars, rate_vars, upload_vars, prog, now, issued, tasks, last>>

\* auto_filter_bot.py start_command -> handle_verification_callback
AFB_callback_begin(u, tok) ==
    /\ prog = "afb"
    /\ callback_begun(u, tok, verify_users(tok, save_user(u)))

\* main_auto_filter.py start_command -> handle_verification
MAF_callback_begin(u, tok) ==
    /\ prog = "maf"
    /\ callback_begun(u, tok, MAF_verify_users(u, tok, save_user(u)))

\* the delivery handlers of the three programs
NextDelivery ==
    \/ \E u \in Subjects, m \in MovieIds, store_ok \in BOOLEAN :
           \/ AFB_download_begin(u, m, store_ok)
           \/ MAF_download_begin(u, m, store_ok)
           \/ BH_download_begin(u, m, store_ok)
    \/ \E u \in Subjects, tok \in Tokens :
           \/ AFB_callback_begin(u, tok)
           \/ MAF_callback_begin(u, tok)
    \/ \E shortener \in ShortenerOutcomes : shortener_returns(shortener)
    \/ \E ok \in BOOLEAN : telegram_returns(ok)

SpecDelivery == Init /\ [][NextDelivery]_vars

\* models.py Movie.is_active: no handler of auto_filter_bot.py or
\* main_auto_filter.py writes the column; the entry is marked inactive in the store
set_inactive(m) ==
    /\ m \in ActiveMovies
    /\ m \notin deactivated
    /\ deactivated' = deactivated \cup {m}
    /\ UNCHANGED <<movies, items, msg>>
    /\ UNCHANGED <<cleanup_vars, short_vars, rate_vars, upload_vars, prog, now, users,
                   verifs, issued, tasks, last>>

\* the delivery handlers, with catalog entries being marked inactive
NextDeactivation ==
    \/ NextDelivery
    \/ \E m \in MovieIds : set_inactive(m)

SpecDeactivation == Init /\ [][NextDeactivation]_vars

\* bot_handlers.py with its job queue, the deletion tasks and the clock
NextCleanup ==
    \/ \E u \in Subjects, m \in MovieIds, store_ok \in BOOLEAN :
           BH_download_begin(u, m, store_ok)
    \/ \E ok \in BOOLEAN : telegram_returns(ok)
    \/ clock_tick
    \/ \E delay_seconds \in DelaySeconds : schedule_file_deletion(delay_seconds)
    \/ \E j \in 1..MaxJobs :
           \/ auto_delete_file(j)
           \/ delete_file(j)

SpecCleanup == InitUpload /\ [][NextCleanup]_vars

\* the event loop and the job queue keep running, and time passes
CleanupFairness ==
    /\ WF_vars(clock_tick)
    /\ \A j \in 1..MaxJobs : WF_vars(auto_delete_file(j)) /\ WF_vars(delete_file(j))

SpecCleanupFair == InitUpload /\ [][NextCleanup]_vars /\ CleanupFairness

\* the same with restarts of the process and cancellations of jobs
NextLifecycle ==
    \/ NextCleanup
    \/ restart
    \/ \E j \in 1..MaxJobs : cancel(j)

SpecLifecycle == InitUpload /\ [][NextLifecycle]_vars

RunsOnceNotEarly ==
    \A j \in 1..Len(jobs) :
        jobs'[j].runs # jobs[j].runs =>
            /\ jobs[j].runs = 0 /\ jobs'[j].runs = 1
            /\ clock >= jobs[j].armed_at + jobs[j].delay

EveryJobRuns ==
    \A j \in 1..MaxJobs :
        [](Len(jobs) >= j => <>(Len(jobs) >= j /\ jobs[j].runs = 1))

\* C23: every cleanup job (run_once with AUTO_DELETE_MINUTES after a delivery,
\* schedule_file_deletion with delay_seconds) runs its callback exactly once:
\* it runs, never before its delay has passed and never a second time, also
\* with delay 0 and with several jobs armed together.
C23_RunsExactlyOnce == [][RunsOnceNotEarly]_vars /\ EveryJobRuns

\* a job armed by a delivery and a deletion task with delay 0 have both run
C23_Witness ==
    /\ Len(jobs) = 2
    /\ \E j, k \in 1..2 :
           /\ jobs[j].kind = "job" /\ jobs[j].runs = 1
           /\ jobs[k].kind = "task" /\ jobs[k].delay = 0 /\ jobs[k].runs = 1
           /\ jobs[k].armed_at < jobs[j].armed_at + jobs[j].delay
           /\ jobs[j].armed_at < clock

\* the handler of the latest delivery request has returned
Ended == req.kind # "none" /\ req.pc = "done"

\* C24 as stated: every delivery in which a file was actually sent (open
\* window, verification callback, fallback after a failed direct message) has
\* armed exactly one cleanup job by the time its handler returns.
C24_SentFileArmsOneJob == Ended /\ req.files >= 1 => req.armed = 1

\* mark_file_deleted has set the auto-delete date of a row of this delivery to NULL
RecordedAsFired(job) ==
    \E i \in 1..Len(download_logs') :
        /\ download_logs'[i].user_id = job.user
        /\ download_logs'[i].movie_id = job.movie
        /\ download_logs'[i].auto_delete_date = NoTime

ArmedJobsSurvive ==
    \A j \in 1..Len(jobs) :
        /\ Armed(j) =>
               \/ jobs'[j].state \in {"armed", "cancelled"}
               \/ jobs'[j].state = "done" /\ jobs'[j].runs = 1
               \/ RecordedAsFired(jobs[j])
        /\ jobs'[j].runs <= 1

\* C25 as stated: across a restart of the process no armed cleanup job
\* silently vanishes and none fires twice: a job stays armed until it has run
\* once (or was cancelled), or its download is recorded as already fired.
C25_JobsSurviveRestart == [][ArmedJobsSurvive]_vars

NoRunAfterCancel ==
    \A j \in 1..Len(jobs) :
        /\ jobs[j].cancels = 1 => jobs'[j].runs = jobs[j].runs
        /\ jobs'[j].cancels # jobs[j].cancels =>
               /\ jobs'[j].runs = jobs[j].runs
               /\ jobs[j].state = "done" => jobs'[j].state = "done"
               /\ jobs[j].state = "armed" => jobs'[j].state = "cancelled"

ChallengeIssued ==
    /\ req.kind = "download" /\ req.pc \in {"edit_link", "done"} /\ req.token # 0
    /\ \E i \in 1..Len(verifs) :
           /\ verifs[i].verification_token = req.token
           /\ verifs[i].user_id = req.user

\* C27 as stated: whatever the shortener call does while a challenge is issued
\* (success, HTTP error, non-success body, exception, timeout), the challenge is
\* issued and its link is the shortener's URL or the unshortened callback URL
\* carrying the issued token.
C27_LinkShortOrCallback ==
    req.kind = "download" /\ req.token # 0 /\ req.pc # "shorten" =>
        /\ ChallengeIssued
        /\ req.short_url \in {Shortened(req.token), Callback(req.token)}

\* the request being handled asks for a movie without an active row
NotFoundRequest == req'.kind = "download" /\ req'.movie \notin ActiveMovies

NotFoundTouchesNothing ==
    NotFoundRequest =>
        /\ UNCHANGED <<verifs, users, issued, download_logs, jobs>>
        /\ req'.token = 0 /\ req'.files = 0 /\ req'.armed = 0
        /\ shown' \in {<<>>, <<"denial">>}
        /\ \A ok \in BOOLEAN :
               req.pc = "edit_not_found" /\ telegram_returns(ok) =>
                   /\ ok => shown' = <<"denial">>
                   /\ prog # "bh" \/ ok => req'.pc = "done"

\* C29: a delivery request for a movie that does not exist or is inactive is
\* answered with the not-found message and nothing else: the token table, the
\* users' verification windows, the download logs and the cleanup jobs stay as
\* they were, no token is generated and no file is sent.
C29_NotFoundTouchesNothing == [][NotFoundTouchesNothing]_vars

\* the not-found message was shown while the ledger held a challenge
C29_Witness ==
    /\ Ended /\ req.kind = "download" /\ req.movie \notin ActiveMovies
    /\ shown = <<"denial">>
    /\ Len(verifs) >= 1 /\ issued >= 1

\* the outcomes among what the requester was shown: a file, a challenge link,
\* a denial or error message (the "sent" notes only accompany a file)
Outcomes == {i \in 1..Len(shown) : shown[i] \in {"file", "link", "denial"}}

\* C30 as stated: every delivery request ends with exactly one user-visible
\* outcome (the file, a challenge link, or an explicit denial or error
\* message), whichever call to the store, the shortener or Telegram fails; a
\* request is never a silent no-op.
C30_ExactlyOneOutcome == Ended => Cardinality(Outcomes) = 1

(* ---- bot_handlers.py: handle_file_upload, cut at every await ---- *)

\* Config.ADMIN_IDS
ADMIN_IDS == {1}

\* Database.add_movie: one INSERT and its commit. The row keeps the file
\* message, whether its file name ends in one of ALLOWED_FILE_EXTENSIONS, and
\* the queue item it was stored for (0 on the direct path)
add_movie(n, allowed, k) ==
    movies \cup {[file |-> n, allowed |-> allowed, item |-> k]}

\* the handler of a new file message starts
FileMsg(n, u, allowed) ==
    [pc |-> "start", file |-> n, user |-> u, allowed |-> allowed, success |-> "none"]

\* add_to_upload_queue for the file message m, up to `await reply_text`;
\* `left` calls are suspended at their reply_text already
queue_appended(m, left, pc) ==
    /\ appended < MaxItems
    /\ appended' = appended + 1
    /\ upload_queue' = Append(upload_queue, appended + 1)
    /\ items' = [items EXCEPT ![appended + 1] = [file |-> m.file, allowed |-> m.allowed]]
    /\ replying' = left + 1
    /\ msg' = [m EXCEPT !.pc = pc]

\* handle_file_upload from check_rate_limit(user.id, "upload") to the next
\* await: a refused sender's file goes to the queue, an admitted sender's file
\* name is checked against ALLOWED_FILE_EXTENSIONS
regular_upload(m, left) ==
    LET row == rate_limits[m.user] IN
    IF upload_refused(row)
    THEN /\ answer' = [answer EXCEPT ![m.user]["upload"] = "False"]
         /\ queue_appended(m, left, "queue_reply_limited")
         /\ UNCHANGED <<rate_limits, admitted>>
    ELSE /\ answer' = [answer EXCEPT ![m.user]["upload"] = "True"]
         /\ rate_limits' = [rate_limits EXCEPT ![m.user] = upload_recorded(row)]
         /\ admitted' = [admitted EXCEPT ![m.user]["upload"] = Append(@, rate_now)]
         /\ msg' = [m EXCEPT !.pc = IF m.allowed THEN "reply_processing"
                                    ELSE "reply_invalid"]
         /\ replying' = left
         /\ UNCHANGED <<upload_queue, appended, items>>

\* a document or video message arrives: handle_file_upload up to its first await
handle_file_upload(u, allowed) ==
    /\ prog = "bh"
    /\ msg.pc = "done"
    /\ msg.file < MaxFiles
    /\ LET m == FileMsg(msg.file + 1, u, allowed) IN
       IF u \notin ADMIN_IDS
       THEN /\ msg' = [m EXCEPT !.pc = "reply_unauthorized"]
            /\ UNCHANGED <<upload_queue, appended, items, replying, rate_limits,
                           admitted, answer>>
       ELSE IF Len(upload_queue) > 0 \/ is_processing
       THEN /\ queue_appended(m, replying, "queue_reply_busy")
            /\ UNCHANGED <<rate_limits, admitted, answer>>
       ELSE regular_upload(m, replying)
    /\ UNCHANGED <<is_processing, spawned, drains, outcome, popped, batches, elapsed,
                   summary>>
    /\ UNCHANGED <<rate_now, calls>>
    /\ UNCHANGED <<deactivated, movies>>
    /\ UNCHANGED <<cleanup_vars, short_vars, prog, now, users, verifs, issued, tasks, last>>

\* the two guards of add_to_upload_queue: the sender is no admin, or the
\* message has neither a document nor a video
call_refused_without_file(u, has_file) == ~has_file
call_refused(u, has_file) == u \notin ADMIN_IDS \/ ~has_file

\* BulkUploadHandler.add_to_upload_queue called on a message of user u, up to
\* its first await
queue_call(u, has_file) ==
    /\ prog = "bh"
    /\ msg.pc = "done"
    /\ msg.file < MaxFiles
    /\ LET m == FileMsg(msg.file + 1, u, TRUE) IN
       IF call_refused(u, has_file)
       THEN /\ msg' = [m EXCEPT !.pc = "done", !.success = "False"]
            /\ UNCHANGED <<upload_queue, appended, items, replying>>
       ELSE queue_appended(m, replying, "queue_reply")
    /\ UNCHANGED <<is_processing, spawned, drains, outcome, popped, batches, elapsed,
                   summary>>
    /\ UNCHANGED <<deactivated, movies>>
    /\ UNCHANGED <<cleanup_vars, short_vars, rate_vars, prog, now, users, verifs, issued,
                   tasks, last>>

\* the awaits inside add_to_upload_queue
QueueReplies == {"queue_reply", "queue_reply_busy", "queue_reply_limited"}

\* what a segment of the handler does when the call it awaited returns (ok) or
\* raises: where it goes on, what add_to_upload_queue returned, whether
\* add_movie (which the store may fail) inserted the row
Upload(pc, success, store) == [pc |-> pc, success |-> success, store |-> store]

file_upload(pc, ok, store_ok) ==
    CASE pc = "queue_reply" ->
             IF ok THEN Upload("done", "True", 0) ELSE Upload("done", "False", 0)
      [] pc = "queue_reply_busy" ->
             IF ok THEN Upload("done", "True", 0)
             ELSE Upload("check_rate_limit", "False", 0)
      [] pc = "queue_reply_limited" ->
             IF ok THEN Upload("done", "True", 0) ELSE Upload("reply_too_fast", "False", 0)
      [] pc = "reply_invalid" -> IF ok THEN Upload("done", "none", 0) ELSE Upload("reply_error", "none", 0)
      [] pc = "reply_processing" -> IF ok THEN Upload("shorten", "none", 0) ELSE Upload("reply_error", "none", 0)
      [] pc = "shorten" ->
             IF store_ok THEN Upload("edit_success", "none", 1) ELSE Upload("reply_error", "none", 0)
      [] pc = "edit_success" -> IF ok THEN Upload("done", "none", 0) ELSE Upload("reply_error", "none", 0)
      [] OTHER -> Upload("done", "none", 0)

\* an awaited call of the handler returns or raises and the handler runs on to
\* its next await; add_to_upload_queue spawns the drain after its reply
upload_returns(ok, store_ok) ==
    /\ msg.pc # "done"
    /\ LET e == file_upload(msg.pc, ok, store_ok)
           left == IF msg.pc \in QueueReplies THEN replying - 1 ELSE replying
           m == IF e.success = "none" THEN msg ELSE [msg EXCEPT !.success = e.success]
       IN /\ spawned' = IF msg.pc \in QueueReplies /\ ok /\ ~is_processing
                        THEN spawned + 1 ELSE spawned
          /\ movies' = IF e.store = 1 THEN add_movie(msg.file, msg.allowed, 0) ELSE movies
          /\ IF e.pc = "check_rate_limit"
             THEN regular_upload(m, left)
             ELSE /\ msg' = [m EXCEPT !.pc = e.pc]
                  /\ replying' = left
                  /\ UNCHANGED <<upload_queue, appended, items, rate_limits, admitted,
                                 answer>>
    /\ UNCHANGED <<is_processing, drains, outcome, popped, batches, elapsed, summary>>
    /\ UNCHANGED <<rate_now, calls>>
    /\ UNCHANGED deactivated
    /\ UNCHANGED <<cleanup_vars, short_vars, prog, now, users, verifs, issued, tasks, last>>

\* what _process_single_upload returns: True after add_movie, False from its
\* except clause
single_upload_result_true(store_ok) == "ok"
single_upload_result(store_ok) == IF store_ok THEN "ok" ELSE "fail"

\* _process_single_upload of the gathered item k, from its start to its
\* return: nothing is written before add_movie, which the store may fail
single_upload_returns(k, store_ok) ==
    /\ outcome[k] = "running"
    /\ outcome' = [outcome EXCEPT ![k] = single_upload_result(store_ok)]
    /\ movies' = IF store_ok THEN add_movie(items[k].file, items[k].allowed, k)
                 ELSE movies
    /\ UNCHANGED <<upload_queue, is_processing, appended, replying, spawned, drains,
                   popped, batches, elapsed, summary>>
    /\ UNCHANGED <<deactivated, items, msg>>
    /\ UNCHANGED <<cleanup_vars, short_vars, rate_vars, prog, now, users, verifs, issued,
                   tasks, last>>

\* the drain of the queue
NextDrain ==
    \/ process_upload_queue
    \/ \E k \in 1..MaxItems, store_ok \in BOOLEAN : single_upload_returns(k, store_ok)
    \/ \E d \in 1..MaxItems : gather_done(d)
    \/ \E d \in 1..MaxItems : sleep_done(d)
    \/ quarter_second

\* bot_handlers.py with its file messages, the admission checks of the admins'
\* earlier uploads, the drain, and restarts of the process
NextIngest ==
    \/ \E u \in Subjects, allowed \in BOOLEAN : handle_file_upload(u, allowed)
    \/ \E ok, store_ok \in BOOLEAN : upload_returns(ok, store_ok)
    \/ \E u \in ADMIN_IDS : check_rate_limit(u, "upload")
    \/ NextDrain
    \/ restart

SpecIngest == InitUpload /\ [][NextIngest]_vars

\* add_to_upload_queue called on any message, and the drain
NextQueueCall ==
    \/ \E u \in Subjects, has_file \in BOOLEAN : queue_call(u, has_file)
    \/ \E ok, store_ok \in BOOLEAN : upload_returns(ok, store_ok)
    \/ NextDrain

SpecQueueCall == InitUpload /\ [][NextQueueCall]_vars

\* C32 as stated: get_verification_stats puts every token into exactly one of
\* pending, successful and expired: the three counts add up to the total, so a
\* token flagged expired is not counted as pending.
C32_StatsPartitionTokens ==
    LET stats == get_verification_stats IN
    stats.pending_verifications + stats.successful_verifications
        + stats.expired_verifications = stats.total_verifications

CleanupFlagsTheExpired ==
    cleanup_expired_verifications =>
        /\ Len(verifs') = Len(verifs)
        /\ \A i \in 1..Len(verifs) :
               IF ~verifs[i].is_verified /\ verifs[i].expires_at < now
               THEN verifs'[i] = [verifs[i] EXCEPT !.is_expired = TRUE]
               ELSE verifs'[i] = verifs[i]
        /\ cleanup_verifs' = verifs'

\* C39: cleanup_expired_verifications flags every unverified token whose
\* expires_at is before now, leaves verified tokens and tokens not yet expired
\* as they are, and a second run at the same time changes nothing more.
C39_CleanupFlagsOnce == [][CleanupFlagsTheExpired]_vars

\* no redirect was ever followed, so the flag was set by a cleanup run, which
\* left a pending token that has not expired untouched
C39_Witness ==
    /\ last = NoReply
    /\ \E i \in 1..Len(verifs) :
           verifs[i].is_expired /\ ~verifs[i].is_verified /\ verifs[i].expires_at < now
    /\ \E i \in 1..Len(verifs) :
           ~verifs[i].is_expired /\ ~verifs[i].is_verified /\ verifs[i].expires_at >= now

\* C33 as stated: on the verification-callback path the file goes only to the
\* subject the token was issued to; another user who presents a valid token
\* does not receive the file.
C33_FileOnlyToTokenSubject ==
    req.kind = "verify" /\ req.files >= 1 =>
        \A i \in 1..Len(verifs) :
            verifs[i].verification_token = req.token => verifs[i].user_id = req.user

\* C38 as stated: the downloads recorded for a delivery (its download log rows,
\* each written together with one increment of download_count) are as many as
\* the files actually sent; a delivery whose send fails records nothing.
C38_RecordedEqualsSent == Ended => req.logged = req.files

\* C34 as stated: a catalog entry marked inactive is never delivered by any
\* path: no file goes out in a request that looked the entry up when it was
\* already inactive, the verification callback for an older token included.
C34_InactiveNeverDelivered == req.files >= 1 => req.listed

\* the catalog records stored for the file message n
RecordsOf(n) == {row \in movies : row.file = n}

\* C35 as stated: each file message handled by handle_file_upload produces at
\* most one catalog record: it is never both left in the bulk queue and stored
\* through the direct path, whatever add_to_upload_queue returned.
C35_OneRecordPerMessage ==
    \A n \in 1..MaxFiles :
        /\ Cardinality(RecordsOf(n)) <= 1
        /\ ~(\E row \in RecordsOf(n) : row.item = 0 /\ \E k \in 1..MaxItems :
                 items[k].file = n /\ k \in Items(upload_queue))

\* C36 as stated: a file whose name does not end in one of
\* ALLOWED_FILE_EXTENSIONS never gets a catalog record, neither through the
\* direct path nor through the bulk queue.
C36_AllowedExtensionsOnly == \A row \in movies : row.allowed

\* a call by a sender who is no admin, or on a message without a file
RefusedQueueCall ==
    \E u \in Subjects, has_file \in BOOLEAN :
        /\ u \notin ADMIN_IDS \/ ~has_file
        /\ queue_call(u, has_file)

QueueCallRefused ==
    RefusedQueueCall =>
        /\ msg'.pc = "done"
        /\ msg'.success = "False"
        /\ UNCHANGED <<upload_queue, is_processing, spawned, drains, appended, replying>>

\* C37: add_to_upload_queue called by a sender who is no admin, or on a message
\* with neither a document nor a video, returns False, leaves the queue and
\* is_processing as they were, and starts no drain.
C37_RefusedCallChangesNothing == [][QueueCallRefused]_vars

\* a sender who is no admin was refused while items were queued and a drain ran
C37_Witness ==
    /\ msg.user \notin ADMIN_IDS
    /\ msg.pc = "done"
    /\ msg.success = "False"
    /\ Len(upload_queue) > 0
    /\ is_processing

\* the catalog records stored for the queue item k
RowsOfItem(k) == {row \in movies : row.item = k}

\* the step in which _process_single_upload of an item ends, or is stopped,
\* writes the item's one record when it returns True and nothing otherwise
OneRecordOrNone ==
    \A k \in 1..MaxItems :
        outcome[k] = "running" /\ outcome'[k] # "running" =>
            /\ movies \subseteq movies'
            /\ IF outcome'[k] = "ok"
               THEN movies' \ movies =
                        {[file |-> items[k].file, allowed |-> items[k].allowed, item |-> k]}
               ELSE movies' = movies

\* an item has one record from the moment it returned True, and none before
\* that or when it failed or was stopped; every record is a whole row
CountedIffRecorded ==
    /\ \A k \in 1..MaxItems :
           /\ outcome[k] = "ok" => Cardinality(RowsOfItem(k)) = 1
           /\ outcome[k] \in {"none", "running", "fail", "stopped"} => RowsOfItem(k) = {}
           /\ Cardinality(RowsOfItem(k)) <= 1
    /\ \A row \in movies :
           /\ row.file \in 1..MaxFiles
           /\ row.item # 0 =>
                  row.file = items[row.item].file /\ row.allowed = items[row.item].allowed
    /\ \A d \in 1..Len(drains) :
           count_results(drains[d].batch, "ok")
               = Cardinality({k \in Items(drains[d].batch) :
                                 outcome[k] # "done" /\ RowsOfItem(k) # {}})

\* C31: processing an ingestion item writes one complete catalog record or
\* none, in a single step: the item is counted as processed if and only if
\* exactly one record was written for it, and stopping the drain between or
\* during batches leaves no partial record.
C31_OneRecordOrNone == [][OneRecordOrNone]_vars /\ []CountedIffRecorded

\* the process was stopped during a batch: one item of the batch had returned
\* True and has its record, another was still running and has none
C31_Witness ==
    \E j, k \in 1..MaxItems :
        /\ outcome[j] = "ok" /\ Cardinality(RowsOfItem(j)) = 1
        /\ outcome[k] = "stopped" /\ RowsOfItem(k) = {}
        /\ upload_queue = <<>>
        /\ ~is_processing
====
